---- MODULE Spec2Model ----
(***************************************************************************)
(* Real-time sign detection stream of hackday26:                           *)
(*   src/src/modules/sign_detection/service.py  (SignLanguageService)      *)
(*   src/src/modules/sign_detection/router.py   (websocket_predict)        *)
(*   src/src/modules/sign_detection/dependencies.py, src/src/main.py       *)
(*                                                                         *)
(* Units: time is counted in tenths of a second (2.0 s = 20), confidence   *)
(* in units of 10^-5 (0.6 = 60000), so that round(confidence, 4) is a real *)
(* operation.  Clock readings are relative to the start of the process.    *)
(***************************************************************************)
EXTENDS Integers, Sequences, FiniteSets, TLC

VARIABLES
    app,              \* "starting" | "serving" | "failed"   (main.py startup_event)
    settings,         \* core.config.settings: the values the process was started with
    service_instance, \* _service_instance / SignLanguageService._instance exists
    model,            \* the value cached by the cached_property model, None before the first access
    model_loads,      \* number of times pipeline(...) has returned a model
    last_sign,        \* SignLanguageService._last_sign
    last_sign_time,   \* SignLanguageService._last_sign_time
    same_sign_count,  \* SignLanguageService._same_sign_count
    now,              \* the clock read by time.time()
    pc,               \* per connection: position of websocket_predict
    client,           \* per connection: "up", or "down" once an operation has found the peer gone
    pending,          \* per connection: the payload handed to the awaited send_text
    site,             \* per connection: which send_text is awaited (router.py line 73, 82 or 91)
    frame,            \* per connection: the frame last received (with the time it was classified)
    nrecv,            \* per connection: frames returned by receive_bytes
    nsent,            \* per connection: payloads delivered by send_text
    close_code,       \* per connection: code of the websocket.close the server attempted, 0 if none
    call,             \* per connection: the predict_frame call of that frame (path taken, state before and after)
    run,              \* observer: the current run of one label on the only connection that talks
    scen,             \* observer: progress through the scenario of section 8 of the specification
    lastnew           \* observer: label and time of the last is_new=true event, if no accepted
                      \* frame of another label has come after it

vars == << app, settings, service_instance, model, model_loads, last_sign, last_sign_time,
           same_sign_count, now, pc, client, pending, site, frame, nrecv, nsent,
           close_code, call, run, scen, lastnew >>

----------------------------------------------------------------------------
(* Bounds of the model *)

\* frames the whole process classifies
MaxFrames == 4

\* connections that may be opened during the life of the process
Conns == {"c1", "c2"}

\* labels the classifier may return
Labels == {"A", "B"}

\* scores the classifier may return (10^-5): below, at and above the threshold
Scores == {30000, 60000, 90000}

\* the clock readings at which something happens: the start, exactly one
\* cooldown later, and the first reading past it
Instants == {0, 20, 21}

----------------------------------------------------------------------------
(* Configuration: src/core/config.py *)

SIGN_DETECTION_CONFIDENCE_THRESHOLD == 60000

SIGN_DETECTION_MAX_REPEATS == 2

SIGN_DETECTION_COOLDOWN == 20

\* Settings(): the defaults of the class, which the environment may override
DefaultSettings ==
    [ SIGN_DETECTION_CONFIDENCE_THRESHOLD |-> SIGN_DETECTION_CONFIDENCE_THRESHOLD,
      SIGN_DETECTION_MAX_REPEATS          |-> SIGN_DETECTION_MAX_REPEATS,
      SIGN_DETECTION_COOLDOWN             |-> SIGN_DETECTION_COOLDOWN ]

\* SignLanguageService._confidence_threshold, _max_repeats, _cooldown_seconds
confidence_threshold == settings.SIGN_DETECTION_CONFIDENCE_THRESHOLD

max_repeats == settings.SIGN_DETECTION_MAX_REPEATS

cooldown_seconds == settings.SIGN_DETECTION_COOLDOWN

None == "None"

NoFrame == [bytes |-> "none", model |-> "none", label |-> None, score |-> 0, at |-> 0]

\* what a client may put in one binary message, by what decoding and the
\* classifier make of it
Frames ==
    { [bytes |-> "garbage", model |-> "none", label |-> None, score |-> 0] }
    \cup { [bytes |-> "image", model |-> m, label |-> None, score |-> 0] :
              m \in {"empty", "ValueError", "RuntimeError"} }
    \cup { [bytes |-> "image", model |-> "pred", label |-> l, score |-> s] :
              l \in Labels, s \in Scores }

----------------------------------------------------------------------------
(* SignLanguageService: service.py *)

\* __init__, lines 44-50
InitialDedup == [last_sign |-> None, last_sign_time |-> 0, same_sign_count |-> 0]

NoResult == [sign |-> None, confidence |-> 0, is_new |-> FALSE]

\* Dedup with line 132 (is_new = False) left out
DedupAlwaysNew(st, sign, confidence, current_time) ==
    IF st.last_sign = sign
    THEN IF current_time - st.last_sign_time > cooldown_seconds
         THEN [st |-> [st EXCEPT !.same_sign_count = 1,
                                 !.last_sign_time = current_time],
               ret |-> "result", path |-> "cooldown_reset",
               result |-> [sign |-> sign, confidence |-> confidence, is_new |-> TRUE]]
         ELSE IF st.same_sign_count + 1 > max_repeats
              THEN [st |-> [st EXCEPT !.same_sign_count = @ + 1],
                    ret |-> "none", path |-> "suppressed", result |-> NoResult]
              ELSE [st |-> [st EXCEPT !.same_sign_count = @ + 1],
                    ret |-> "result", path |-> "repeat",
                    result |-> [sign |-> sign, confidence |-> confidence, is_new |-> TRUE]]
    ELSE [st |-> [last_sign |-> sign, last_sign_time |-> current_time,
                  same_sign_count |-> 1],
          ret |-> "result", path |-> "new_sign",
          result |-> [sign |-> sign, confidence |-> confidence, is_new |-> TRUE]]

\* Dedup with >= for > at line 129
DedupOffByOne(st, sign, confidence, current_time) ==
    IF st.last_sign = sign
    THEN IF current_time - st.last_sign_time > cooldown_seconds
         THEN [st |-> [st EXCEPT !.same_sign_count = 1,
                                 !.last_sign_time = current_time],
               ret |-> "result", path |-> "cooldown_reset",
               result |-> [sign |-> sign, confidence |-> confidence, is_new |-> TRUE]]
         ELSE IF st.same_sign_count + 1 >= max_repeats
              THEN [st |-> [st EXCEPT !.same_sign_count = @ + 1],
                    ret |-> "none", path |-> "suppressed", result |-> NoResult]
              ELSE [st |-> [st EXCEPT !.same_sign_count = @ + 1],
                    ret |-> "result", path |-> "repeat",
                    result |-> [sign |-> sign, confidence |-> confidence, is_new |-> FALSE]]
    ELSE [st |-> [last_sign |-> sign, last_sign_time |-> current_time,
                  same_sign_count |-> 1],
          ret |-> "result", path |-> "new_sign",
          result |-> [sign |-> sign, confidence |-> confidence, is_new |-> TRUE]]

\* Dedup with line 122 (_same_sign_count = 1) left out: the count goes on
DedupNoReset(st, sign, confidence, current_time) ==
    IF st.last_sign = sign
    THEN IF current_time - st.last_sign_time > cooldown_seconds
         THEN [st |-> [st EXCEPT !.same_sign_count = @ + 1,
                                 !.last_sign_time = current_time],
               ret |-> "result", path |-> "cooldown_reset",
               result |-> [sign |-> sign, confidence |-> confidence, is_new |-> TRUE]]
         ELSE IF st.same_sign_count + 1 > max_repeats
              THEN [st |-> [st EXCEPT !.same_sign_count = @ + 1],
                    ret |-> "none", path |-> "suppressed", result |-> NoResult]
              ELSE [st |-> [st EXCEPT !.same_sign_count = @ + 1],
                    ret |-> "result", path |-> "repeat",
                    result |-> [sign |-> sign, confidence |-> confidence, is_new |-> FALSE]]
    ELSE [st |-> [last_sign |-> sign, last_sign_time |-> current_time,
                  same_sign_count |-> 1],
          ret |-> "result", path |-> "new_sign",
          result |-> [sign |-> sign, confidence |-> confidence, is_new |-> TRUE]]

\* Dedup with line 136 (_last_sign_time = current_time) left out
DedupStaleTime(st, sign, confidence, current_time) ==
    IF st.last_sign = sign
    THEN IF current_time - st.last_sign_time > cooldown_seconds
         THEN [st |-> [st EXCEPT !.same_sign_count = 1,
                                 !.last_sign_time = current_time],
               ret |-> "result", path |-> "cooldown_reset",
               result |-> [sign |-> sign, confidence |-> confidence, is_new |-> TRUE]]
         ELSE IF st.same_sign_count + 1 > max_repeats
              THEN [st |-> [st EXCEPT !.same_sign_count = @ + 1],
                    ret |-> "none", path |-> "suppressed", result |-> NoResult]
              ELSE [st |-> [st EXCEPT !.same_sign_count = @ + 1],
                    ret |-> "result", path |-> "repeat",
                    result |-> [sign |-> sign, confidence |-> confidence, is_new |-> FALSE]]
    ELSE [st |-> [last_sign |-> sign, last_sign_time |-> st.last_sign_time,
                  same_sign_count |-> 1],
          ret |-> "result", path |-> "new_sign",
          result |-> [sign |-> sign, confidence |-> confidence, is_new |-> TRUE]]

\* Dedup with lines 129-130 (return None past max_repeats) left out
DedupSuppressedAsRepeat(st, sign, confidence, current_time) ==
    IF st.last_sign = sign
    THEN IF current_time - st.last_sign_time > cooldown_seconds
         THEN [st |-> [st EXCEPT !.same_sign_count = 1,
                                 !.last_sign_time = current_time],
               ret |-> "result", path |-> "cooldown_reset",
               result |-> [sign |-> sign, confidence |-> confidence, is_new |-> TRUE]]
         ELSE IF st.same_sign_count + 1 > max_repeats
              THEN [st |-> [st EXCEPT !.same_sign_count = @ + 1],
                    ret |-> "result", path |-> "suppressed",
                    result |-> [sign |-> sign, confidence |-> confidence, is_new |-> FALSE]]
              ELSE [st |-> [st EXCEPT !.same_sign_count = @ + 1],
                    ret |-> "result", path |-> "repeat",
                    result |-> [sign |-> sign, confidence |-> confidence, is_new |-> FALSE]]
    ELSE [st |-> [last_sign |-> sign, last_sign_time |-> current_time,
                  same_sign_count |-> 1],
          ret |-> "result", path |-> "new_sign",
          result |-> [sign |-> sign, confidence |-> confidence, is_new |-> TRUE]]

\* Dedup that moves _last_sign_time on with every frame of the sign
DedupSlidingWindow(st, sign, confidence, current_time) ==
    IF st.last_sign = sign
    THEN IF current_time - st.last_sign_time > cooldown_seconds
         THEN [st |-> [st EXCEPT !.same_sign_count = 1,
                                 !.last_sign_time = current_time],
               ret |-> "result", path |-> "cooldown_reset",
               result |-> [sign |-> sign, confidence |-> confidence, is_new |-> TRUE]]
         ELSE IF st.same_sign_count + 1 > max_repeats
              THEN [st |-> [st EXCEPT !.same_sign_count = @ + 1,
                                      !.last_sign_time = current_time],
                    ret |-> "none", path |-> "suppressed", result |-> NoResult]
              ELSE [st |-> [st EXCEPT !.same_sign_count = @ + 1,
                                      !.last_sign_time = current_time],
                    ret |-> "result", path |-> "repeat",
                    result |-> [sign |-> sign, confidence |-> confidence, is_new |-> FALSE]]
    ELSE [st |-> [last_sign |-> sign, last_sign_time |-> current_time,
                  same_sign_count |-> 1],
          ret |-> "result", path |-> "new_sign",
          result |-> [sign |-> sign, confidence |-> confidence, is_new |-> TRUE]]

\* Dedup with >= for > at line 119
DedupCooldownInclusive(st, sign, confidence, current_time) ==
    IF st.last_sign = sign
    THEN IF current_time - st.last_sign_time >= cooldown_seconds
         THEN [st |-> [st EXCEPT !.same_sign_count = 1,
                                 !.last_sign_time = current_time],
               ret |-> "result", path |-> "cooldown_reset",
               result |-> [sign |-> sign, confidence |-> confidence, is_new |-> TRUE]]
         ELSE IF st.same_sign_count + 1 > max_repeats
              THEN [st |-> [st EXCEPT !.same_sign_count = @ + 1],
                    ret |-> "none", path |-> "suppressed", result |-> NoResult]
              ELSE [st |-> [st EXCEPT !.same_sign_count = @ + 1],
                    ret |-> "result", path |-> "repeat",
                    result |-> [sign |-> sign, confidence |-> confidence, is_new |-> FALSE]]
    ELSE [st |-> [last_sign |-> sign, last_sign_time |-> current_time,
                  same_sign_count |-> 1],
          ret |-> "result", path |-> "new_sign",
          result |-> [sign |-> sign, confidence |-> confidence, is_new |-> TRUE]]

\* Dedup that lets one more repeat through at line 129
DedupOneMore(st, sign, confidence, current_time) ==
    IF st.last_sign = sign
    THEN IF current_time - st.last_sign_time > cooldown_seconds
         THEN [st |-> [st EXCEPT !.same_sign_count = 1,
                                 !.last_sign_time = current_time],
               ret |-> "result", path |-> "cooldown_reset",
               result |-> [sign |-> sign, confidence |-> confidence, is_new |-> TRUE]]
         ELSE IF st.same_sign_count + 1 > max_repeats + 1
              THEN [st |-> [st EXCEPT !.same_sign_count = @ + 1],
                    ret |-> "none", path |-> "suppressed", result |-> NoResult]
              ELSE [st |-> [st EXCEPT !.same_sign_count = @ + 1],
                    ret |-> "result", path |-> "repeat",
                    result |-> [sign |-> sign, confidence |-> confidence, is_new |-> FALSE]]
    ELSE [st |-> [last_sign |-> sign, last_sign_time |-> current_time,
                  same_sign_count |-> 1],
          ret |-> "result", path |-> "new_sign",
          result |-> [sign |-> sign, confidence |-> confidence, is_new |-> TRUE]]

\* Dedup with line 121 (_last_sign_time = current_time) left out
DedupResetKeepsTime(st, sign, confidence, current_time) ==
    IF st.last_sign = sign
    THEN IF current_time - st.last_sign_time > cooldown_seconds
         THEN [st |-> [st EXCEPT !.same_sign_count = 1],
               ret |-> "result", path |-> "cooldown_reset",
               result |-> [sign |-> sign, confidence |-> confidence, is_new |-> TRUE]]
         ELSE IF st.same_sign_count + 1 > max_repeats
              THEN [st |-> [st EXCEPT !.same_sign_count = @ + 1],
                    ret |-> "none", path |-> "suppressed", result |-> NoResult]
              ELSE [st |-> [st EXCEPT !.same_sign_count = @ + 1],
                    ret |-> "result", path |-> "repeat",
                    result |-> [sign |-> sign, confidence |-> confidence, is_new |-> FALSE]]
    ELSE [st |-> [last_sign |-> sign, last_sign_time |-> current_time,
                  same_sign_count |-> 1],
          ret |-> "result", path |-> "new_sign",
          result |-> [sign |-> sign, confidence |-> confidence, is_new |-> TRUE]]

\* predict_frame, lines 112-143: the deduplication of one accepted prediction.
\* ret is "result" (a PredictionResult is returned) or "none" (None is returned).
Dedup(st, sign, confidence, current_time) ==
    IF st.last_sign = sign
    THEN IF current_time - st.last_sign_time > cooldown_seconds
         THEN [st |-> [st EXCEPT !.same_sign_count = 1,
                                 !.last_sign_time = current_time],
               ret |-> "result", path |-> "cooldown_reset",
               result |-> [sign |-> sign, confidence |-> confidence, is_new |-> TRUE]]
         ELSE IF st.same_sign_count + 1 > max_repeats
              THEN [st |-> [st EXCEPT !.same_sign_count = @ + 1],
                    ret |-> "none", path |-> "suppressed", result |-> NoResult]
              ELSE [st |-> [st EXCEPT !.same_sign_count = @ + 1],
                    ret |-> "result", path |-> "repeat",
                    result |-> [sign |-> sign, confidence |-> confidence, is_new |-> FALSE]]
    ELSE [st |-> [last_sign |-> sign, last_sign_time |-> current_time,
                  same_sign_count |-> 1],
          ret |-> "result", path |-> "new_sign",
          result |-> [sign |-> sign, confidence |-> confidence, is_new |-> TRUE]]

\* predict_frame with the filter of lines 106-107 left out
PredictFrameNoFilter(st, f, current_time) ==
    IF f.bytes = "garbage"
    THEN [st |-> st, ret |-> "ValueError", path |-> "decode_error", result |-> NoResult]
    ELSE IF f.model = "ValueError"
    THEN [st |-> st, ret |-> "ValueError", path |-> "model_value_error", result |-> NoResult]
    ELSE IF f.model = "RuntimeError"
    THEN [st |-> st, ret |-> "RuntimeError", path |-> "model_error", result |-> NoResult]
    ELSE IF f.model = "empty"
    THEN [st |-> st, ret |-> "none", path |-> "empty", result |-> NoResult]
    ELSE Dedup(st, f.label, f.score, current_time)

\* predict_frame that forgets the last sign when the image cannot be read
PredictFrameForgets(st, f, current_time) ==
    IF f.bytes = "garbage"
    THEN [st |-> InitialDedup, ret |-> "ValueError", path |-> "decode_error",
          result |-> NoResult]
    ELSE IF f.model = "ValueError"
    THEN [st |-> st, ret |-> "ValueError", path |-> "model_value_error", result |-> NoResult]
    ELSE IF f.model = "RuntimeError"
    THEN [st |-> st, ret |-> "RuntimeError", path |-> "model_error", result |-> NoResult]
    ELSE IF f.model = "empty"
    THEN [st |-> st, ret |-> "none", path |-> "empty", result |-> NoResult]
    ELSE IF f.score < confidence_threshold
    THEN [st |-> st, ret |-> "none", path |-> "low_confidence", result |-> NoResult]
    ELSE Dedup(st, f.label, f.score, current_time)

\* a property that is not cached: every access runs pipeline(...)
ModelAccessReloads(m, loads) == [model |-> "pipeline", loads |-> loads + 1]

\* the cached_property model, lines 58-70: the first access runs pipeline(...)
\* and stores what it returns on the instance, later accesses read it back
ModelAccess(m, loads) ==
    IF m # None THEN [model |-> m, loads |-> loads]
    ELSE [model |-> "pipeline", loads |-> loads + 1]

\* lines 89-93: Image.open and convert succeed, so line 96 is reached
Decodes(f) == f.bytes = "image"

\* predict_frame that counts the frame before the model is called, so that a
\* failed call leaves the count one higher
PredictFrameCountsFirst(st, f, current_time) ==
    IF f.bytes = "garbage"
    THEN [st |-> st, ret |-> "ValueError", path |-> "decode_error", result |-> NoResult]
    ELSE IF f.model = "ValueError"
    THEN [st |-> [st EXCEPT !.same_sign_count = @ + 1], ret |-> "ValueError",
          path |-> "model_value_error", result |-> NoResult]
    ELSE IF f.model = "RuntimeError"
    THEN [st |-> [st EXCEPT !.same_sign_count = @ + 1], ret |-> "RuntimeError",
          path |-> "model_error", result |-> NoResult]
    ELSE IF f.model = "empty"
    THEN [st |-> st, ret |-> "none", path |-> "empty", result |-> NoResult]
    ELSE IF f.score < confidence_threshold
    THEN [st |-> st, ret |-> "none", path |-> "low_confidence", result |-> NoResult]
    ELSE Dedup(st, f.label, f.score, current_time)

\* predict_frame that starts the count again after a frame below the threshold
PredictFrameLowResets(st, f, current_time) ==
    IF f.bytes = "garbage"
    THEN \* Image.open / convert raise OSError: lines 89-93, 145-147
         [st |-> st, ret |-> "ValueError", path |-> "decode_error", result |-> NoResult]
    ELSE IF f.model = "ValueError"
    THEN \* the model call raises inside the same try: lines 96, 145-147
         [st |-> st, ret |-> "ValueError", path |-> "model_value_error", result |-> NoResult]
    ELSE IF f.model = "RuntimeError"
    THEN \* not an OSError or ValueError: leaves predict_frame as it is
         [st |-> st, ret |-> "RuntimeError", path |-> "model_error", result |-> NoResult]
    ELSE IF f.model = "empty"
    THEN \* lines 99-100
         [st |-> st, ret |-> "none", path |-> "empty", result |-> NoResult]
    ELSE IF f.score < confidence_threshold
    THEN \* lines 106-107
         [st |-> [st EXCEPT !.same_sign_count = 0], ret |-> "none",
          path |-> "low_confidence", result |-> NoResult]
    ELSE Dedup(st, f.label, f.score, current_time)

\* predict_frame with <= for < at line 106
PredictFrameThresholdInclusive(st, f, current_time) ==
    IF f.bytes = "garbage"
    THEN \* Image.open / convert raise OSError: lines 89-93, 145-147
         [st |-> st, ret |-> "ValueError", path |-> "decode_error", result |-> NoResult]
    ELSE IF f.model = "ValueError"
    THEN \* the model call raises inside the same try: lines 96, 145-147
         [st |-> st, ret |-> "ValueError", path |-> "model_value_error", result |-> NoResult]
    ELSE IF f.model = "RuntimeError"
    THEN \* not an OSError or ValueError: leaves predict_frame as it is
         [st |-> st, ret |-> "RuntimeError", path |-> "model_error", result |-> NoResult]
    ELSE IF f.model = "empty"
    THEN \* lines 99-100
         [st |-> st, ret |-> "none", path |-> "empty", result |-> NoResult]
    ELSE IF f.score <= confidence_threshold
    THEN \* lines 106-107
         [st |-> st, ret |-> "none", path |-> "low_confidence", result |-> NoResult]
    ELSE Dedup(st, f.label, f.score, current_time)

\* predict_frame without lines 99-100: predictions[0] raises IndexError
PredictFrameEmptyRaises(st, f, current_time) ==
    IF f.bytes = "garbage"
    THEN \* Image.open / convert raise OSError: lines 89-93, 145-147
         [st |-> st, ret |-> "ValueError", path |-> "decode_error", result |-> NoResult]
    ELSE IF f.model = "ValueError"
    THEN \* the model call raises inside the same try: lines 96, 145-147
         [st |-> st, ret |-> "ValueError", path |-> "model_value_error", result |-> NoResult]
    ELSE IF f.model = "RuntimeError"
    THEN \* not an OSError or ValueError: leaves predict_frame as it is
         [st |-> st, ret |-> "RuntimeError", path |-> "model_error", result |-> NoResult]
    ELSE IF f.model = "empty"
    THEN \* lines 99-100
         [st |-> st, ret |-> "IndexError", path |-> "empty", result |-> NoResult]
    ELSE IF f.score < confidence_threshold
    THEN \* lines 106-107
         [st |-> st, ret |-> "none", path |-> "low_confidence", result |-> NoResult]
    ELSE Dedup(st, f.label, f.score, current_time)

\* predict_frame, lines 87-147.  ret is "result", "none", or the exception that
\* leaves the call ("ValueError", "RuntimeError").
PredictFrame(st, f, current_time) ==
    IF f.bytes = "garbage"
    THEN \* Image.open / convert raise OSError: lines 89-93, 145-147
         [st |-> st, ret |-> "ValueError", path |-> "decode_error", result |-> NoResult]
    ELSE IF f.model = "ValueError"
    THEN \* the model call raises inside the same try: lines 96, 145-147
         [st |-> st, ret |-> "ValueError", path |-> "model_value_error", result |-> NoResult]
    ELSE IF f.model = "RuntimeError"
    THEN \* not an OSError or ValueError: leaves predict_frame as it is
         [st |-> st, ret |-> "RuntimeError", path |-> "model_error", result |-> NoResult]
    ELSE IF f.model = "empty"
    THEN \* lines 99-100
         [st |-> st, ret |-> "none", path |-> "empty", result |-> NoResult]
    ELSE IF f.score < confidence_threshold
    THEN \* lines 106-107
         [st |-> st, ret |-> "none", path |-> "low_confidence", result |-> NoResult]
    ELSE Dedup(st, f.label, f.score, current_time)

----------------------------------------------------------------------------
(* websocket_predict: router.py *)

\* round(x, 4) of a confidence in units of 10^-5: to the nearest multiple of
\* 10, ties to the even one
Round4(x) ==
    LET q == x \div 10
        r == x % 10
    IN  IF r < 5 THEN 10 * q
        ELSE IF r > 5 THEN 10 * (q + 1)
        ELSE IF q % 2 = 0 THEN 10 * q ELSE 10 * (q + 1)

\* A payload is the dict handed to json.dumps: keys are the keys the dict
\* has; a field whose key is absent holds a filler that is never sent.
NoPayload == [kind |-> "nothing", sign |-> None, confidence |-> 0, is_new |-> FALSE,
              error |-> None, keys |-> {}]

\* lines 59-63
NoDetection == [kind |-> "no_detection", sign |-> None, confidence |-> 0,
                is_new |-> FALSE, error |-> None,
                keys |-> {"sign", "confidence", "message"}]

\* lines 66-70
Success(result) == [kind |-> "sign", sign |-> result.sign,
                    confidence |-> Round4(result.confidence),
                    is_new |-> result.is_new, error |-> None,
                    keys |-> {"sign", "confidence", "is_new"}]

\* lines 78-81
InvalidImage == [kind |-> "error", sign |-> None, confidence |-> 0, is_new |-> FALSE,
                 error |-> "Invalid image data", keys |-> {"error", "message"}]

\* an error payload that keeps the keys of the no-detection payload
InternalErrorWithSign ==
    [kind |-> "error", sign |-> None, confidence |-> 0, is_new |-> FALSE,
     error |-> "Internal server error",
     keys |-> {"sign", "confidence", "error", "message"}]

\* lines 87-90
InternalError == [kind |-> "error", sign |-> None, confidence |-> 0, is_new |-> FALSE,
                  error |-> "Internal server error", keys |-> {"error", "message"}]

\* lines 55-91: the payload built for what predict_frame did, and the
\* send_text that is then awaited
Response(r) ==
    IF r.ret = "result" THEN [payload |-> Success(r.result), site |-> 73]
    ELSE IF r.ret = "none" THEN [payload |-> NoDetection, site |-> 73]
    ELSE IF r.ret = "ValueError" THEN [payload |-> InvalidImage, site |-> 82]
    ELSE [payload |-> InternalError, site |-> 91]

----------------------------------------------------------------------------
(* Observers: they read the frames and the payloads, never the service's state *)

Accepted(f) ==
    f.bytes = "image" /\ f.model = "pred"
    /\ f.score >= SIGN_DETECTION_CONFIDENCE_THRESHOLD

\* no connection other than c has had a frame classified
Solo(c) == \A d \in Conns \ {c} : nrecv[d] = 0

NoRun == [label |-> None, ok |-> FALSE, start |-> 0, n |-> 0]

NoLastNew == [label |-> None, at |-> 0]

\* lastnew after frame f has been classified at time t and answered with
\* payload out
LastNewAfter(ln, f, t, out) ==
    IF out.kind = "sign" /\ out.is_new THEN [label |-> out.sign, at |-> t]
    ELSE IF Accepted(f) /\ f.label # ln.label THEN NoLastNew
    ELSE ln

\* The run of section 8: frames of one label, accepted, one after the other on
\* the only connection that talks, each within the cooldown of the first.  A
\* run starts with the first accepted frame of the process or of a label; a
\* frame that is not accepted, or one past the window, ends it (ok = FALSE)
\* until the label changes.
RunAfter(rn, c, f, t) ==
    IF ~Solo(c) THEN NoRun
    ELSE IF ~Accepted(f) THEN [label |-> rn.label, ok |-> FALSE, start |-> 0, n |-> 0]
    ELSE IF f.label # rn.label THEN [label |-> f.label, ok |-> TRUE, start |-> t, n |-> 1]
    ELSE IF rn.ok /\ t - rn.start <= SIGN_DETECTION_COOLDOWN
         THEN [rn EXCEPT !.n = @ + 1]
    ELSE [label |-> rn.label, ok |-> FALSE, start |-> 0, n |-> 0]

\* The scenario of section 8: (label, confidence, t)
ScenarioInput ==
    << [label |-> "A", score |-> 90000, t |-> 0],
       [label |-> "A", score |-> 90000, t |-> 5],
       [label |-> "A", score |-> 90000, t |-> 9],
       [label |-> "A", score |-> 90000, t |-> 30],
       [label |-> "B", score |-> 95000, t |-> 31],
       [label |-> "A", score |-> 30000, t |-> 32] >>

ScenarioOff == [on |-> FALSE, t0 |-> 0, outs |-> << >>]

\* scen.outs: the payloads built so far while the frames of the process have
\* been exactly the first frames of the scenario, on one connection
ScenAfter(sc, c, f, t, out) ==
    LET k  == Len(sc.outs) + 1
        t0 == IF k = 1 THEN t ELSE sc.t0
    IN  IF /\ sc.on
           /\ Solo(c)
           /\ k <= Len(ScenarioInput)
           /\ f.bytes = "image" /\ f.model = "pred"
           /\ f.label = ScenarioInput[k].label
           /\ f.score = ScenarioInput[k].score
           /\ t - t0 = ScenarioInput[k].t
        THEN [on |-> TRUE, t0 |-> t0, outs |-> Append(sc.outs, out)]
        ELSE ScenarioOff

----------------------------------------------------------------------------
(* State *)

Dedup_state == [last_sign |-> last_sign, last_sign_time |-> last_sign_time,
                same_sign_count |-> same_sign_count]

NoCall == [path |-> None, pre |-> InitialDedup, post |-> InitialDedup]

InitService ==
    /\ app = "starting"
    /\ service_instance = FALSE
    /\ model = None
    /\ model_loads = 0
    /\ last_sign = None
    /\ last_sign_time = 0
    /\ same_sign_count = 0
    /\ now = 0
    /\ pc = [c \in Conns |-> "connecting"]
    /\ client = [c \in Conns |-> "up"]
    /\ pending = [c \in Conns |-> NoPayload]
    /\ site = [c \in Conns |-> 0]
    /\ frame = [c \in Conns |-> NoFrame]
    /\ nrecv = [c \in Conns |-> 0]
    /\ nsent = [c \in Conns |-> 0]
    /\ close_code = [c \in Conns |-> 0]
    /\ call = [c \in Conns |-> NoCall]
    /\ run = NoRun
    /\ scen = [on |-> TRUE, t0 |-> 0, outs |-> << >>]
    /\ lastnew = NoLastNew

\* the process is started with the values of config.py
Init ==
    /\ settings = DefaultSettings
    /\ InitService

conn_vars == << pc, client, pending, site, frame, call, nrecv, nsent, close_code >>

dedup_vars == << last_sign, last_sign_time, same_sign_count >>

observer_vars == << run, scen, lastnew >>

----------------------------------------------------------------------------
(* Startup: main.py lines 40-44, service.py lines 242-251, 149-154 *)

\* get_service_instance() builds the service, warmup() loads the model
StartupOk ==
    /\ app = "starting"
    /\ app' = "serving"
    /\ service_instance' = TRUE
    /\ last_sign' = InitialDedup.last_sign
    /\ last_sign_time' = InitialDedup.last_sign_time
    /\ same_sign_count' = InitialDedup.same_sign_count
    /\ model' = ModelAccess(model, model_loads).model
    /\ model_loads' = ModelAccess(model, model_loads).loads
    /\ UNCHANGED << settings, now, conn_vars, observer_vars >>

\* a startup event that catches the failure of warmup() and goes on
StartupFailSwallowed ==
    /\ app = "starting"
    /\ app' = "serving"
    /\ service_instance' = TRUE
    /\ last_sign' = InitialDedup.last_sign
    /\ last_sign_time' = InitialDedup.last_sign_time
    /\ same_sign_count' = InitialDedup.same_sign_count
    /\ UNCHANGED << settings, model, model_loads, now, conn_vars, observer_vars >>

\* pipeline(...) raises in warmup(): the startup event fails
StartupFail ==
    /\ app = "starting"
    /\ app' = "failed"
    /\ service_instance' = TRUE
    /\ last_sign' = InitialDedup.last_sign
    /\ last_sign_time' = InitialDedup.last_sign_time
    /\ same_sign_count' = InitialDedup.same_sign_count
    /\ UNCHANGED << settings, model, model_loads, now, conn_vars, observer_vars >>

\* the clock moves on to reading t
Tick(t) ==
    /\ t > now
    /\ now' = t
    /\ UNCHANGED << app, settings, service_instance, model, model_loads, dedup_vars, conn_vars,
                    observer_vars >>

----------------------------------------------------------------------------
(* websocket_predict: router.py lines 27-101 *)

\* line 45, with the dependency get_sign_service (dependencies.py 25-26)
Accept(c) ==
    /\ app = "serving"
    /\ pc[c] = "connecting"
    /\ client[c] = "up"
    /\ pc' = [pc EXCEPT ![c] = "receive"]
    /\ UNCHANGED << app, settings, service_instance, model, model_loads, dedup_vars, now, client,
                    pending, site, frame, call, nrecv, nsent, close_code, observer_vars >>

TotalFrames == nrecv["c1"] + nrecv["c2"]

\* lines 51-70, 75-81, 84-90: receive_bytes returns f, predict_frame runs to
\* its end (it awaits nothing), the payload is built; the handler is then
\* suspended in send_text
Classify(c, f) ==
    LET r   == PredictFrame(Dedup_state, f, now)
        rsp == Response(r)
    IN  /\ pc[c] = "receive"
        /\ client[c] = "up"
        /\ last_sign' = r.st.last_sign
        /\ last_sign_time' = r.st.last_sign_time
        /\ same_sign_count' = r.st.same_sign_count
        /\ pending' = [pending EXCEPT ![c] = rsp.payload]
        /\ site' = [site EXCEPT ![c] = rsp.site]
        /\ pc' = [pc EXCEPT ![c] = "send"]
        /\ frame' = [frame EXCEPT ![c] = [bytes |-> f.bytes, model |-> f.model,
                                          label |-> f.label, score |-> f.score,
                                          at |-> now]]
        /\ nrecv' = [nrecv EXCEPT ![c] = @ + 1]
        /\ call' = [call EXCEPT ![c] = [path |-> r.path, pre |-> Dedup_state, post |-> r.st]]
        /\ run' = RunAfter(run, c, f, now)
        /\ scen' = ScenAfter(scen, c, f, now, [payload |-> rsp.payload, path |-> r.path])
        /\ lastnew' = LastNewAfter(lastnew, f, now, rsp.payload)
        /\ model' = (IF Decodes(f) THEN ModelAccess(model, model_loads).model ELSE model)
        /\ model_loads' = (IF Decodes(f) THEN ModelAccess(model, model_loads).loads
                                          ELSE model_loads)
        /\ UNCHANGED << app, settings, service_instance, now, client, nsent, close_code >>

HandleFrame(c, f) ==
    /\ TotalFrames < MaxFrames
    /\ Classify(c, f)

\* a handler that clears the service's dedup state when its client disconnects
ReceiveDisconnectResets(c) ==
    /\ pc[c] = "receive"
    /\ pc' = [pc EXCEPT ![c] = "closed"]
    /\ client' = [client EXCEPT ![c] = "down"]
    /\ last_sign' = InitialDedup.last_sign
    /\ last_sign_time' = InitialDedup.last_sign_time
    /\ same_sign_count' = InitialDedup.same_sign_count
    /\ UNCHANGED << app, settings, service_instance, model, model_loads, now,
                    pending, site, frame, call, nrecv, nsent, close_code, observer_vars >>

\* a handler that catches WebSocketDisconnect inside the loop and reads again
ReceiveDisconnectLoops(c) ==
    /\ pc[c] = "receive"
    /\ client[c] = "up"
    /\ client' = [client EXCEPT ![c] = "down"]
    /\ UNCHANGED << app, settings, service_instance, model, model_loads, dedup_vars, now,
                    pc, pending, site, frame, call, nrecv, nsent, close_code, observer_vars >>

\* the peer has gone: line 51 raises WebSocketDisconnect; lines 93-94
ReceiveDisconnect(c) ==
    /\ pc[c] = "receive"
    /\ pc' = [pc EXCEPT ![c] = "closed"]
    /\ client' = [client EXCEPT ![c] = "down"]
    /\ UNCHANGED << app, settings, service_instance, model, model_loads, dedup_vars, now,
                    pending, site, frame, call, nrecv, nsent, close_code, observer_vars >>

\* line 51 raises something else (the message is not binary); lines 96-101
ReceiveFault(c) ==
    /\ pc[c] = "receive"
    /\ client[c] = "up"
    /\ pc' = [pc EXCEPT ![c] = "closed"]
    /\ close_code' = [close_code EXCEPT ![c] = 1011]
    /\ UNCHANGED << app, settings, service_instance, model, model_loads, dedup_vars, now, client,
                    pending, site, frame, call, nrecv, nsent, observer_vars >>

\* SendOk with "if result is None: continue" before the payload is built
SendOkSkipsNone(c) ==
    /\ pc[c] = "send"
    /\ client[c] = "up"
    /\ nsent' = [nsent EXCEPT ![c] = IF pending[c].kind = "no_detection" THEN @ ELSE @ + 1]
    /\ pc' = [pc EXCEPT ![c] = "receive"]
    /\ pending' = [pending EXCEPT ![c] = NoPayload]
    /\ site' = [site EXCEPT ![c] = 0]
    /\ frame' = [frame EXCEPT ![c] = NoFrame]
    /\ call' = [call EXCEPT ![c] = NoCall]
    /\ UNCHANGED << app, settings, service_instance, model, model_loads, dedup_vars, now, client,
                    nrecv, close_code, observer_vars >>

\* SendOk with a break after an error payload: the handler returns
SendOkLeavesOnError(c) ==
    /\ pc[c] = "send"
    /\ client[c] = "up"
    /\ nsent' = [nsent EXCEPT ![c] = @ + 1]
    /\ pc' = [pc EXCEPT ![c] = IF pending[c].kind = "error" THEN "closed" ELSE "receive"]
    /\ pending' = [pending EXCEPT ![c] = NoPayload]
    /\ site' = [site EXCEPT ![c] = 0]
    /\ frame' = [frame EXCEPT ![c] = NoFrame]
    /\ call' = [call EXCEPT ![c] = NoCall]
    /\ UNCHANGED << app, settings, service_instance, model, model_loads, dedup_vars, now, client,
                    nrecv, close_code, observer_vars >>

\* send_text delivers the payload (line 73, 82 or 91); back to line 51
SendOk(c) ==
    /\ pc[c] = "send"
    /\ client[c] = "up"
    /\ nsent' = [nsent EXCEPT ![c] = @ + 1]
    /\ pc' = [pc EXCEPT ![c] = "receive"]
    /\ pending' = [pending EXCEPT ![c] = NoPayload]
    /\ site' = [site EXCEPT ![c] = 0]
    /\ frame' = [frame EXCEPT ![c] = NoFrame]
    /\ call' = [call EXCEPT ![c] = NoCall]
    /\ UNCHANGED << app, settings, service_instance, model, model_loads, dedup_vars, now, client,
                    nrecv, close_code, observer_vars >>

\* the peer has gone: send_text at line 73 raises, which is caught at line
\* 84, and the error payload is sent at line 91
SendFailInner(c) ==
    /\ pc[c] = "send"
    /\ site[c] = 73
    /\ client' = [client EXCEPT ![c] = "down"]
    /\ pending' = [pending EXCEPT ![c] = InternalError]
    /\ site' = [site EXCEPT ![c] = 91]
    /\ UNCHANGED << app, settings, service_instance, model, model_loads, dedup_vars, now, pc,
                    frame, call, nrecv, nsent, close_code, observer_vars >>

\* send_text at line 82 or 91 raises: the exception leaves the loop.
\* WebSocketDisconnect: lines 93-94; anything else: lines 96-101, where the
\* close may fail as well
SendFailOuter(c, exc) ==
    /\ pc[c] = "send"
    /\ site[c] \in {82, 91}
    /\ pc' = [pc EXCEPT ![c] = "closed"]
    /\ client' = [client EXCEPT ![c] = "down"]
    /\ close_code' = [close_code EXCEPT
                        ![c] = IF exc = "WebSocketDisconnect" THEN @ ELSE 1011]
    /\ pending' = [pending EXCEPT ![c] = NoPayload]
    /\ site' = [site EXCEPT ![c] = 0]
    /\ frame' = [frame EXCEPT ![c] = NoFrame]
    /\ call' = [call EXCEPT ![c] = NoCall]
    /\ UNCHANGED << app, settings, service_instance, model, model_loads, dedup_vars, now,
                    nrecv, nsent, observer_vars >>

----------------------------------------------------------------------------

Next ==
    \/ StartupOk
    \/ StartupFail
    \/ \E t \in Instants : Tick(t)
    \/ \E c \in Conns : Accept(c)
    \/ \E c \in Conns, f \in Frames : HandleFrame(c, f)
    \/ \E c \in Conns : ReceiveDisconnect(c)
    \/ \E c \in Conns : ReceiveFault(c)
    \/ \E c \in Conns : SendOk(c)
    \/ \E c \in Conns : SendFailInner(c)
    \/ \E c \in Conns, exc \in {"WebSocketDisconnect", "RuntimeError"} :
           SendFailOuter(c, exc)

Spec == Init /\ [][Next]_vars

----------------------------------------------------------------------------
(* The model call taken apart.  predict_frame is a coroutine that awaits
   nothing: from the return of receive_bytes to the next send_text the handler
   keeps the thread of the event loop, the model call of line 96 included.
   Here the call is two steps, so that what may happen while it runs is
   checked rather than assumed: the clock moves; no other coroutine runs
   unless the call yields the loop. *)

\* a model call that is awaited (handed to an executor) and so yields the loop
ModelCallAwaitsYes == TRUE

\* service.py line 96, `predictions = self.model(image)`: a plain call
ModelCallAwaits == FALSE

\* the event loop can run a step of a handler
LoopIdle == ModelCallAwaits \/ \A d \in Conns : pc[d] # "infer"

\* frames that reach the model call
LoopFrames ==
    { f \in Frames : Decodes(f) /\ (f.model = "pred" => f.score = 90000) }

\* lines 51-96: receive_bytes returns f, the image is decoded and the model
\* is called
EnterModel(c, f) ==
    /\ TotalFrames < MaxFrames
    /\ LoopIdle
    /\ pc[c] = "receive"
    /\ client[c] = "up"
    /\ Decodes(f)
    /\ pc' = [pc EXCEPT ![c] = "infer"]
    /\ frame' = [frame EXCEPT ![c] = [bytes |-> f.bytes, model |-> f.model,
                                      label |-> f.label, score |-> f.score,
                                      at |-> now]]
    /\ nrecv' = [nrecv EXCEPT ![c] = @ + 1]
    /\ model' = ModelAccess(model, model_loads).model
    /\ model_loads' = ModelAccess(model, model_loads).loads
    /\ UNCHANGED << app, settings, service_instance, dedup_vars, now, client, pending,
                    site, call, nsent, close_code, observer_vars >>

\* a predict_frame that works on a state of its own, empty at every call,
\* and writes the result over the service's
LeaveModelOwnCopy(c) ==
    LET f   == frame[c]
        r   == PredictFrame(InitialDedup, f, now)
        rsp == Response(r)
    IN  /\ pc[c] = "infer"
        /\ last_sign' = r.st.last_sign
        /\ last_sign_time' = r.st.last_sign_time
        /\ same_sign_count' = r.st.same_sign_count
        /\ pending' = [pending EXCEPT ![c] = rsp.payload]
        /\ site' = [site EXCEPT ![c] = rsp.site]
        /\ pc' = [pc EXCEPT ![c] = "send"]
        /\ frame' = [frame EXCEPT ![c].at = now]
        /\ call' = [call EXCEPT ![c] = [path |-> r.path, pre |-> Dedup_state, post |-> r.st]]
        /\ run' = RunAfter(run, c, f, now)
        /\ scen' = ScenAfter(scen, c, f, now, [payload |-> rsp.payload, path |-> r.path])
        /\ lastnew' = LastNewAfter(lastnew, f, now, rsp.payload)
        /\ UNCHANGED << app, settings, service_instance, model, model_loads, now, client,
                        nrecv, nsent, close_code >>

\* lines 96-147 and 57-91: the model call returns or raises, the clock is
\* read (line 112), the state is updated and the payload is built
LeaveModel(c) ==
    LET f   == frame[c]
        r   == PredictFrame(Dedup_state, f, now)
        rsp == Response(r)
    IN  /\ pc[c] = "infer"
        /\ last_sign' = r.st.last_sign
        /\ last_sign_time' = r.st.last_sign_time
        /\ same_sign_count' = r.st.same_sign_count
        /\ pending' = [pending EXCEPT ![c] = rsp.payload]
        /\ site' = [site EXCEPT ![c] = rsp.site]
        /\ pc' = [pc EXCEPT ![c] = "send"]
        /\ frame' = [frame EXCEPT ![c].at = now]
        /\ call' = [call EXCEPT ![c] = [path |-> r.path, pre |-> Dedup_state, post |-> r.st]]
        /\ run' = RunAfter(run, c, f, now)
        /\ scen' = ScenAfter(scen, c, f, now, [payload |-> rsp.payload, path |-> r.path])
        /\ lastnew' = LastNewAfter(lastnew, f, now, rsp.payload)
        /\ UNCHANGED << app, settings, service_instance, model, model_loads, now, client,
                        nrecv, nsent, close_code >>

\* a frame that does not decode never reaches the model call
DecodeError(c) ==
    /\ LoopIdle
    /\ \E f \in Frames : ~Decodes(f) /\ HandleFrame(c, f)

\* a step of connection c's handler outside predict_frame
LoopStep(c) ==
    /\ LoopIdle
    /\ \/ Accept(c)
       \/ ReceiveDisconnect(c)
       \/ ReceiveFault(c)
       \/ SendOk(c)
       \/ SendFailInner(c)
       \/ \E exc \in {"WebSocketDisconnect", "RuntimeError"} : SendFailOuter(c, exc)

LoopNext ==
    \/ StartupOk
    \/ \E t \in Instants : Tick(t)
    \/ \E c \in Conns, f \in LoopFrames : EnterModel(c, f)
    \/ \E c \in Conns : LeaveModel(c)
    \/ \E c \in Conns : DecodeError(c)
    \/ \E c \in Conns : LoopStep(c)

LoopSpec == Init /\ [][LoopNext]_vars

----------------------------------------------------------------------------
(* The process started with other values than the defaults: Settings is a
   pydantic BaseSettings, so the environment or .env may set each value; the
   class declares types only. *)

\* values the environment may give: in and out of the ranges the
\* specification asks for
ThresholdChoices == {-1, SIGN_DETECTION_CONFIDENCE_THRESHOLD, 100001}

MaxRepeatsChoices == {0, 1, SIGN_DETECTION_MAX_REPEATS}

CooldownChoices == {0, SIGN_DETECTION_COOLDOWN}

SettingsChoices ==
    [ SIGN_DETECTION_CONFIDENCE_THRESHOLD : ThresholdChoices,
      SIGN_DETECTION_MAX_REPEATS          : MaxRepeatsChoices,
      SIGN_DETECTION_COOLDOWN             : CooldownChoices ]

ConfigInit ==
    /\ settings \in SettingsChoices
    /\ InitService

\* frames that decode and that the model answers, with or without a prediction
ConfigFrames == { f \in Frames : f.model \in {"pred", "empty"} }

ConfigNext ==
    \/ StartupOk
    \/ StartupFail
    \/ \E t \in Instants : Tick(t)
    \/ Accept("c1")
    \/ \E f \in ConfigFrames : HandleFrame("c1", f)
    \/ SendOk("c1")

ConfigSpec == ConfigInit /\ [][ConfigNext]_vars

----------------------------------------------------------------------------
(* The scenario of section 8 needs six frames and six clock readings: it is
   run on one connection, with the frames and the readings it is made of, in
   any order and number. *)

ScenarioFrames ==
    { [bytes |-> "image", model |-> "pred", label |-> ScenarioInput[i].label,
       score |-> ScenarioInput[i].score] : i \in 1..Len(ScenarioInput) }

ScenarioInstants == { ScenarioInput[i].t : i \in 1..Len(ScenarioInput) }

ScenarioFrame(c, f) ==
    /\ TotalFrames < Len(ScenarioInput)
    /\ Classify(c, f)

ScenarioNext ==
    \/ StartupOk
    \/ \E t \in ScenarioInstants : Tick(t)
    \/ Accept("c1")
    \/ \E f \in ScenarioFrames : ScenarioFrame("c1", f)
    \/ SendOk("c1")

ScenarioSpec == Init /\ [][ScenarioNext]_vars

----------------------------------------------------------------------------
(* Properties *)

\* connection c is suspended in the send_text of the payload built for
\* frame[c], and no send has failed
Built(c) == pc[c] = "send" /\ client[c] = "up"

IsSymbol(p, sign, is_new) == p.kind = "sign" /\ p.sign = sign /\ p.is_new = is_new

IsErrorFrame(f) == f.bytes = "garbage" \/ f.model \in {"ValueError", "RuntimeError"}

\* C1: on the only connection that talks, the first frame of a run of one
\* label (accepted frames, one after the other, all within the cooldown of the
\* first) is answered with is_new = true, the next max_repeats - 1 with
\* is_new = false, and every further one with no symbol.
C1_RunEmissions ==
    \A c \in Conns :
        (Built(c) /\ Solo(c) /\ run.ok) =>
            /\ run.n = 1 => IsSymbol(pending[c], run.label, TRUE)
            /\ (1 < run.n /\ run.n <= SIGN_DETECTION_MAX_REPEATS) =>
                   IsSymbol(pending[c], run.label, FALSE)
            /\ run.n > SIGN_DETECTION_MAX_REPEATS => pending[c] = NoDetection

\* a run two frames past max_repeats, its last frame at the very end of the window
C1_Witness ==
    \E c \in Conns :
        /\ Built(c) /\ Solo(c) /\ run.ok
        /\ run.n = SIGN_DETECTION_MAX_REPEATS + 2
        /\ frame[c].at - run.start = SIGN_DETECTION_COOLDOWN
        /\ pending[c] = NoDetection

\* C2: a frame whose top prediction is below the threshold is answered with
\* the no-detection payload, whatever its label and the state it finds.
C2_LowConfidence ==
    \A c \in Conns :
        ( /\ Built(c)
          /\ frame[c].bytes = "image" /\ frame[c].model = "pred"
          /\ frame[c].score < SIGN_DETECTION_CONFIDENCE_THRESHOLD )
        => (pending[c] = NoDetection /\ site[c] = 73)

\* a low-confidence frame of the label of a run that is being suppressed
C2_Witness ==
    \E c \in Conns :
        /\ Built(c)
        /\ frame[c].bytes = "image" /\ frame[c].model = "pred"
        /\ frame[c].score < SIGN_DETECTION_CONFIDENCE_THRESHOLD
        /\ frame[c].label = call[c].pre.last_sign
        /\ call[c].pre.same_sign_count > SIGN_DETECTION_MAX_REPEATS
        /\ pending[c] = NoDetection

\* C3: the first frame of a connection, when accepted, is answered with
\* is_new = true, whatever the other connections have sent.
C3_FirstFrameIsNew ==
    \A c \in Conns :
        (Built(c) /\ nrecv[c] = 1 /\ Accepted(frame[c])) =>
            IsSymbol(pending[c], frame[c].label, TRUE)

\* C4: two connections whose streams are the same frame, classified at the
\* same clock reading, are answered with the same payload.
C4_IdenticalStreams ==
    \A c, d \in Conns :
        ( /\ Built(c) /\ Built(d)
          /\ nrecv[c] = 1 /\ nrecv[d] = 1
          /\ frame[c] = frame[d] )
        => pending[c] = pending[d]

\* connection c has just had frame'[c] classified
Classified(c) == nrecv'[c] = nrecv[c] + 1

\* C5: an accepted frame of the last label, more than the cooldown after
\* last_sign_time, is answered with is_new = true and leaves the count at 1
\* and last_sign_time at the time of the frame, whatever the count was.
C5_CooldownElapsed ==
    [][ \A c \in Conns :
          ( /\ Classified(c)
            /\ Accepted(frame'[c])
            /\ frame'[c].label = last_sign
            /\ frame'[c].at - last_sign_time > SIGN_DETECTION_COOLDOWN )
          => /\ IsSymbol(pending'[c], last_sign, TRUE)
             /\ last_sign' = last_sign
             /\ same_sign_count' = 1
             /\ last_sign_time' = frame'[c].at ]_vars

\* the label comes back after the cooldown, out of a suppressed run
C5_Witness ==
    \E c \in Conns :
        /\ Built(c)
        /\ Accepted(frame[c])
        /\ frame[c].label = call[c].pre.last_sign
        /\ frame[c].at - call[c].pre.last_sign_time > SIGN_DETECTION_COOLDOWN
        /\ call[c].pre.same_sign_count > SIGN_DETECTION_MAX_REPEATS
        /\ IsSymbol(pending[c], frame[c].label, TRUE)
        /\ same_sign_count = 1

\* C6: an accepted frame of a label other than the last one is answered with
\* is_new = true and leaves last_sign at the new label, last_sign_time at the
\* time of the frame and the count at 1, whatever the count and the time were.
C6_LabelSwitch ==
    [][ \A c \in Conns :
          ( /\ Classified(c)
            /\ Accepted(frame'[c])
            /\ same_sign_count >= 1
            /\ frame'[c].label # last_sign )
          => /\ IsSymbol(pending'[c], frame'[c].label, TRUE)
             /\ last_sign' = frame'[c].label
             /\ last_sign_time' = frame'[c].at
             /\ same_sign_count' = 1 ]_vars

\* a switch out of a suppressed run, at a later clock reading but within the
\* cooldown of the other label
C6_Witness ==
    \E c \in Conns :
        /\ Built(c)
        /\ Accepted(frame[c])
        /\ call[c].pre.last_sign \in Labels \ {frame[c].label}
        /\ call[c].pre.same_sign_count > SIGN_DETECTION_MAX_REPEATS
        /\ frame[c].at > call[c].pre.last_sign_time
        /\ frame[c].at - call[c].pre.last_sign_time <= SIGN_DETECTION_COOLDOWN
        /\ IsSymbol(pending[c], frame[c].label, TRUE)
        /\ last_sign = frame[c].label /\ same_sign_count = 1
        /\ last_sign_time = frame[c].at

\* C7: a frame that cannot be decoded leaves last_sign, last_sign_time and
\* same_sign_count as they were, so that the frames after it are classified as
\* if it had not come; it is answered with the invalid-image payload, and
\* the handler stays in its loop unless the peer is gone.
C7_MalformedFrame ==
    [][ \A c \in Conns :
          /\ (Classified(c) /\ frame'[c].bytes = "garbage")
             => /\ UNCHANGED dedup_vars
                /\ pc'[c] = "send"
                /\ pending'[c] = InvalidImage
          /\ (pc[c] = "send" /\ frame[c].bytes = "garbage" /\ client'[c] = "up")
             => /\ pc'[c] \in {"send", "receive"}
                /\ close_code'[c] = 0 ]_vars

\* a malformed frame in the middle of a run
C7_Witness ==
    \E c \in Conns :
        /\ Built(c)
        /\ frame[c].bytes = "garbage"
        /\ call[c].pre.same_sign_count >= SIGN_DETECTION_MAX_REPEATS
        /\ Dedup_state = call[c].pre
        /\ pending[c] = InvalidImage

\* what section 8 expects of the scenario: A new, A repeat, suppressed, A new
\* (cooldown elapsed), B new, no confident detection
ScenarioExpected ==
    << [payload |-> Success([sign |-> "A", confidence |-> 90000, is_new |-> TRUE]),
        path |-> "new_sign"],
       [payload |-> Success([sign |-> "A", confidence |-> 90000, is_new |-> FALSE]),
        path |-> "repeat"],
       [payload |-> NoDetection, path |-> "suppressed"],
       [payload |-> Success([sign |-> "A", confidence |-> 90000, is_new |-> TRUE]),
        path |-> "cooldown_reset"],
       [payload |-> Success([sign |-> "B", confidence |-> 95000, is_new |-> TRUE]),
        path |-> "new_sign"],
       [payload |-> NoDetection, path |-> "low_confidence"] >>

\* C8: with threshold 0.6, max_repeats 2 and cooldown 2.0 s, a fresh
\* connection fed (A,0.9,0), (A,0.9,0.5), (A,0.9,0.9), (A,0.9,3.0),
\* (B,0.95,3.1), (A,0.3,3.2) is answered, in order: A new, A repeat,
\* suppressed, A new, B new, no confident detection.
C8_Scenario ==
    /\ SIGN_DETECTION_CONFIDENCE_THRESHOLD = 60000
    /\ SIGN_DETECTION_MAX_REPEATS = 2
    /\ SIGN_DETECTION_COOLDOWN = 20
    /\ \A i \in 1..Len(scen.outs) : scen.outs[i] = ScenarioExpected[i]

\* the whole scenario has been fed
C8_Witness == scen.on /\ Len(scen.outs) = Len(ScenarioInput)

\* C9: each frame received is answered by exactly one payload: a handler
\* waiting for a frame has delivered as many payloads as it has received
\* frames, one that is sending has one to deliver, and none ever delivers
\* more than it has received.
C9_OneEventPerFrame ==
    \A c \in Conns :
        /\ nsent[c] <= nrecv[c]
        /\ nrecv[c] - nsent[c] <= 1
        /\ pc[c] = "receive" => nsent[c] = nrecv[c]
        /\ pc[c] = "send" => nsent[c] = nrecv[c] - 1

\* three frames received and answered on one connection
C9_Witness ==
    \E c \in Conns : pc[c] = "receive" /\ nrecv[c] = 3 /\ nsent[c] = 3

\* C10: a frame that cannot be decoded or classified is answered with an
\* error payload, and its handler leaves the send only by delivering that
\* payload and going back to receive the next frame: it does not close the
\* connection (unless the peer is found gone).
C10_ErrorKeepsOpen ==
    [][ \A c \in Conns :
          /\ (Classified(c) /\ IsErrorFrame(frame'[c]))
             => (pc'[c] = "send" /\ pending'[c].kind = "error")
          /\ (pc[c] = "send" /\ IsErrorFrame(frame[c]) /\ client'[c] = "up")
             => /\ \/ pc'[c] = "send" /\ pending'[c] = pending[c]
                   \/ /\ pc'[c] = "receive"
                      /\ nsent'[c] = nsent[c] + 1
                      /\ pending[c].kind = "error"
                /\ close_code'[c] = 0 ]_vars

\* a classification error on the second frame of a connection, the first
\* having been answered: the error payload is about to be sent
C10_Witness ==
    \E c \in Conns :
        /\ Built(c)
        /\ frame[c].model = "RuntimeError"
        /\ pending[c] = InternalError
        /\ nrecv[c] = 2 /\ nsent[c] = 1

\* the classification call (self.model(image), service.py line 96) raises
ModelRaises(f) == f.bytes = "image" /\ f.model \in {"ValueError", "RuntimeError"}

\* C11: when the classification call raises, last_sign, last_sign_time and
\* same_sign_count are what they were before the frame.
C11_FailedInferenceKeepsState ==
    [][ \A c \in Conns :
          (Classified(c) /\ ModelRaises(frame'[c])) => UNCHANGED dedup_vars ]_vars

\* the classification call raises in the middle of a run
C11_Witness ==
    \E c \in Conns :
        /\ pc[c] = "send"
        /\ ModelRaises(frame[c])
        /\ call[c].pre.last_sign \in Labels
        /\ call[c].pre.same_sign_count >= SIGN_DETECTION_MAX_REPEATS
        /\ Dedup_state = call[c].pre

\* C12: a failure of the classification call, whatever the exception the
\* model raises, is answered with the internal-error payload, never with the
\* invalid-image payload.
C12_InferenceFailureIsInternal ==
    \A c \in Conns :
        (Built(c) /\ ModelRaises(frame[c])) => pending[c] = InternalError

\* C13: the dedup state a connection finds when it opens is empty: what
\* earlier connections built up is gone.
C13_FreshStateOnOpen ==
    [][ \A c \in Conns :
          (pc[c] = "connecting" /\ pc'[c] = "receive")
          => /\ last_sign' = None
             /\ same_sign_count' = 0 ]_vars

\* C14: whatever the connections do, pipeline(...) has produced at most one
\* model, and every connection that is served is served by that one.
C14_ModelLoadedOnce ==
    /\ model_loads <= 1
    /\ \A c \in Conns : pc[c] # "connecting" => (model_loads = 1 /\ model = "pipeline")

\* both connections have reached the model call of line 96
C14_Witness ==
    /\ \A c \in Conns : pc[c] = "send" /\ Decodes(frame[c])
    /\ model_loads = 1

\* C15: at most one connection is inside the model call at any time.
C15_OneInferenceAtATime ==
    \A c, d \in Conns : (pc[c] = "infer" /\ pc[d] = "infer") => c = d

\* one connection is inside the model call while the other is open, has been
\* served before and could be sent a frame
C15_Witness ==
    \E c, d \in Conns :
        /\ pc[c] = "infer"
        /\ pc[d] = "receive" /\ client[d] = "up" /\ nsent[d] >= 1
        /\ now > frame[c].at
        /\ TotalFrames < MaxFrames

\* C16: on one connection a frame is read only when every frame read before
\* it has had its payload delivered, and a payload is delivered only for the
\* one frame that is read and not yet answered; after a failed send no frame
\* is read.
C16_ReceiveSendAlternate ==
    [][ \A c \in Conns :
          /\ nrecv'[c] # nrecv[c] =>
                /\ nrecv'[c] = nrecv[c] + 1
                /\ nsent[c] = nrecv[c]
                /\ nsent'[c] = nsent[c]
                /\ client[c] = "up"
          /\ nsent'[c] # nsent[c] =>
                /\ nsent'[c] = nsent[c] + 1
                /\ nrecv[c] = nsent[c] + 1
                /\ nrecv'[c] = nrecv[c] ]_vars

\* the third frame of a connection is read, the first two are answered
C16_Witness ==
    \E c \in Conns : pc[c] = "send" /\ nrecv[c] = 3 /\ nsent[c] = 2

\* the states of a session: Open is "receive" or "send"; the attempt to close
\* and the end of the handler are one step into "closed"
SessionMoves ==
    { <<"connecting", "receive">>, <<"receive", "send">>, <<"send", "receive">>,
      <<"send", "send">>, <<"receive", "closed">>, <<"send", "closed">> }

\* C17: a session moves only from connecting to open to closed; no frame is
\* read before the accept; once the peer is known to be gone no frame is read
\* and no payload delivered, and the handler is closed or in its last failing
\* send; a closed session does nothing more.
C17_SessionLifecycle ==
    [][ \A c \in Conns :
          /\ pc'[c] # pc[c] => <<pc[c], pc'[c]>> \in SessionMoves
          /\ pc[c] = "connecting" => (nrecv'[c] = 0 /\ nsent'[c] = 0)
          /\ client[c] = "down" =>
                /\ nrecv'[c] = nrecv[c] /\ nsent'[c] = nsent[c]
                /\ client'[c] = "down"
          /\ client'[c] = "down" =>
                \/ pc'[c] = "closed"
                \/ pc'[c] = "send" /\ site'[c] = 91 /\ pending'[c] = InternalError
          /\ pc[c] = "closed" =>
                /\ pc'[c] = "closed"
                /\ nrecv'[c] = nrecv[c] /\ nsent'[c] = nsent[c]
                /\ close_code'[c] = close_code[c] ]_vars

\* a session that served frames has ended on a disconnect while the other
\* goes on
C17_Witness ==
    \E c, d \in Conns :
        /\ pc[c] = "closed" /\ client[c] = "down" /\ close_code[c] = 0
        /\ nsent[c] >= 1
        /\ pc[d] = "send" /\ nrecv[d] >= 2

\* C18: a connection is closed with code 1011 only after an error payload
\* has been handed to send_text, and the handler then ends.
C18_ErrorPayloadBeforeClose ==
    [][ \A c \in Conns :
          (close_code'[c] = 1011 /\ close_code[c] # 1011)
          => /\ pc[c] = "send"
             /\ pending[c].kind = "error"
             /\ pc'[c] = "closed" ]_vars

\* C19: a frame that was in flight when its connection closed leaves no
\* trace: when the only other frame the process has seen is such a frame, a
\* connection's first accepted frame is answered as new.
C19_InFlightDiscarded ==
    \A c, d \in Conns :
        ( /\ c # d
          /\ pc[c] = "closed" /\ nrecv[c] = 1 /\ nsent[c] = 0
          /\ Built(d) /\ nrecv[d] = 1 /\ Accepted(frame[d]) )
        => IsSymbol(pending[d], frame[d].label, TRUE)

\* the ranges of section 3 of the specification
ValidSettings ==
    /\ 0 <= settings.SIGN_DETECTION_CONFIDENCE_THRESHOLD
    /\ settings.SIGN_DETECTION_CONFIDENCE_THRESHOLD <= 100000
    /\ settings.SIGN_DETECTION_MAX_REPEATS >= 1
    /\ settings.SIGN_DETECTION_COOLDOWN > 0

\* C20: started with a threshold outside [0, 1], max_repeats below 1 or a
\* cooldown that is not positive, the process never serves and no connection
\* is accepted.
C20_InvalidConfigRefused ==
    ~ValidSettings => (app # "serving" /\ \A c \in Conns : pc[c] = "connecting")

\* C21: once the model load of the startup warmup has failed the process
\* never serves; a connection is accepted, and a frame classified, only in
\* a process whose warmup has loaded the model.
C21_NoServiceWithoutModel ==
    [][ /\ app = "failed" => app' = "failed"
        /\ app' = "failed" =>
              /\ model' = None
              /\ \A c \in Conns : pc'[c] = "connecting" /\ nrecv'[c] = 0
        /\ \A c \in Conns :
              (pc'[c] # pc[c] \/ nrecv'[c] # nrecv[c])
              => (app = "serving" /\ model = "pipeline") ]_vars

\* the load has failed and time has passed
C21_Witness ==
    /\ app = "failed"
    /\ model_loads = 0
    /\ now > 0

\* the three shapes of an event
SuccessShape(p) ==
    /\ p.keys = {"sign", "confidence", "is_new"}
    /\ p.sign \in Labels
    /\ p.is_new \in BOOLEAN

NoDetectionShape(p) ==
    /\ {"sign", "confidence"} \subseteq p.keys
    /\ "error" \notin p.keys
    /\ p.sign = None
    /\ p.confidence = 0

ErrorShape(p) ==
    /\ "error" \in p.keys
    /\ "sign" \notin p.keys
    /\ p.error # None

\* C22: every payload handed to send_text has exactly one of the three
\* shapes: success, no-detection or error.
C22_EventShapes ==
    \A c \in Conns :
        pc[c] = "send" =>
            \/ SuccessShape(pending[c]) /\ ~NoDetectionShape(pending[c]) /\ ~ErrorShape(pending[c])
            \/ ~SuccessShape(pending[c]) /\ NoDetectionShape(pending[c]) /\ ~ErrorShape(pending[c])
            \/ ~SuccessShape(pending[c]) /\ ~NoDetectionShape(pending[c]) /\ ErrorShape(pending[c])

\* a success event and an internal-error event are being sent
C22_Witness ==
    \E c, d \in Conns :
        /\ pc[c] = "send" /\ SuccessShape(pending[c]) /\ ~pending[c].is_new
        /\ pc[d] = "send" /\ pending[d] = InternalError

\* the frame decodes, the model answers with a prediction, and its score is
\* not below the threshold the process was started with (lines 99-107)
Passes(f) == Decodes(f) /\ f.model = "pred" /\ f.score >= confidence_threshold

\* the frame decodes and the model answers, with nothing or with a score
\* below the threshold
Falls(f) ==
    /\ Decodes(f)
    /\ \/ f.model = "empty"
       \/ f.model = "pred" /\ f.score < confidence_threshold

\* C23: last_sign, last_sign_time and same_sign_count change only in the
\* step that classifies a frame at or above the threshold; a frame below it,
\* and one for which the model returns no prediction, leave them as they
\* are.
C23_StateChangesOnAcceptedOnly ==
    [][ /\ dedup_vars' # dedup_vars =>
              \E c \in Conns : Classified(c) /\ Passes(frame'[c])
        /\ \A c \in Conns :
              (Classified(c) /\ Falls(frame'[c])) => UNCHANGED dedup_vars ]_vars

\* a frame below the threshold, of the label that is being counted, in the
\* middle of a run
C23_Witness ==
    \E c \in Conns :
        /\ pc[c] = "send"
        /\ Falls(frame[c])
        /\ frame[c].label = call[c].pre.last_sign
        /\ call[c].pre.same_sign_count = 1
        /\ max_repeats >= 2
        /\ Dedup_state = call[c].pre

\* the payload a frame of f's label would be answered with, in the same
\* state and at the same time, had its score been below the threshold
LowConfidenceEvent(st, f, t) ==
    Response(PredictFrame(st, [bytes |-> "image", model |-> "pred", label |-> f.label,
                               score |-> confidence_threshold - 1], t)).payload

\* C24: a frame that is suppressed is answered with exactly the payload of a
\* low-confidence frame: sign null, no label, no is_new.
C24_SuppressedIsNoDetection ==
    \A c \in Conns :
        ( /\ pc[c] = "send" /\ site[c] = 73
          /\ Passes(frame[c])
          /\ frame[c].label = call[c].pre.last_sign
          /\ frame[c].at - call[c].pre.last_sign_time <= cooldown_seconds
          /\ call[c].pre.same_sign_count + 1 > max_repeats )
        => /\ pending[c] = LowConfidenceEvent(call[c].pre, frame[c], frame[c].at)
           /\ pending[c].sign = None
           /\ "is_new" \notin pending[c].keys

\* the third frame of a label within the cooldown, max_repeats being 2
C24_Witness ==
    \E c \in Conns :
        /\ pc[c] = "send"
        /\ call[c].path = "suppressed"
        /\ call[c].post.same_sign_count = 3
        /\ max_repeats = 2
        /\ frame[c].score > confidence_threshold

\* C25: a frame of the last label within the cooldown changes the count
\* only, sent or suppressed; the cooldown therefore runs from the last
\* is_new=true emission, and the first frame more than a cooldown after it is
\* emitted with is_new=true, whatever was classified in between.
C25_CooldownFromLastEmission ==
    [][ \A c \in Conns :
          (Classified(c) /\ Passes(frame'[c]) /\ frame'[c].label = last_sign) =>
              /\ now - last_sign_time <= cooldown_seconds =>
                    /\ last_sign' = last_sign
                    /\ last_sign_time' = last_sign_time
                    /\ same_sign_count' = same_sign_count + 1
              /\ now - last_sign_time > cooldown_seconds =>
                    /\ IsSymbol(pending'[c], last_sign, TRUE)
                    /\ last_sign_time' = now
                    /\ same_sign_count' = 1 ]_vars

\* a label whose frames had been suppressed is emitted again as new
C25_Witness ==
    \E c \in Conns :
        /\ pc[c] = "send"
        /\ call[c].path = "cooldown_reset"
        /\ call[c].pre.same_sign_count > max_repeats + 1
        /\ cooldown_seconds > 0
        /\ IsSymbol(pending[c], frame[c].label, TRUE)

\* C26: a frame of the last label exactly cooldown_seconds after
\* last_sign_time is a repeat within the window: the count goes up by one
\* and the frame is not emitted as new; one with a greater gap is.
C26_CooldownStrict ==
    \A c \in Conns :
        ( /\ pc[c] = "send" /\ site[c] = 73
          /\ Passes(frame[c])
          /\ frame[c].label = call[c].pre.last_sign )
        => /\ frame[c].at - call[c].pre.last_sign_time = cooldown_seconds =>
                 /\ call[c].post.same_sign_count = call[c].pre.same_sign_count + 1
                 /\ call[c].post.last_sign_time = call[c].pre.last_sign_time
                 /\ \/ pending[c] = NoDetection
                    \/ IsSymbol(pending[c], frame[c].label, FALSE)
           /\ frame[c].at - call[c].pre.last_sign_time > cooldown_seconds =>
                 IsSymbol(pending[c], frame[c].label, TRUE)

\* a second frame of a label exactly one cooldown of 2.0 s after the first
C26_Witness ==
    \E c \in Conns :
        /\ pc[c] = "send"
        /\ call[c].path = "repeat"
        /\ cooldown_seconds = SIGN_DETECTION_COOLDOWN
        /\ frame[c].at - call[c].pre.last_sign_time = cooldown_seconds
        /\ IsSymbol(pending[c], frame[c].label, FALSE)

\* C27: a frame whose score equals the threshold is accepted: it goes
\* through the dedup step and, on a fresh state, is emitted as new; a score
\* below the threshold is answered with no-detection.
C27_ThresholdStrict ==
    \A c \in Conns :
        (pc[c] = "send" /\ Decodes(frame[c]) /\ frame[c].model = "pred")
        => /\ frame[c].score = confidence_threshold =>
                 /\ call[c].path \in {"new_sign", "repeat", "suppressed", "cooldown_reset"}
                 /\ call[c].post.last_sign = frame[c].label
                 /\ call[c].pre = InitialDedup =>
                       IsSymbol(pending[c], frame[c].label, TRUE)
           /\ frame[c].score < confidence_threshold =>
                 (pending[c] = NoDetection /\ call[c].post = call[c].pre)

\* the first frame of the process scores exactly the threshold
C27_Witness ==
    \E c \in Conns :
        /\ pc[c] = "send"
        /\ frame[c].model = "pred"
        /\ frame[c].score = confidence_threshold
        /\ call[c].pre = InitialDedup
        /\ IsSymbol(pending[c], frame[c].label, TRUE)

\* C28: a decodable frame for which the model returns no prediction is
\* answered with the no-detection payload, not an error, and once that is
\* delivered the handler is back at the receive.
C28_EmptyPredictionIsNoDetection ==
    [][ \A c \in Conns :
          /\ (Classified(c) /\ Decodes(frame'[c]) /\ frame'[c].model = "empty") =>
                /\ pending'[c] = NoDetection
                /\ site'[c] = 73
                /\ pc'[c] = "send"
          /\ ( /\ pc[c] = "send" /\ frame[c].model = "empty"
               /\ nsent'[c] = nsent[c] + 1 ) =>
                /\ pc'[c] = "receive"
                /\ close_code'[c] = 0 ]_vars

\* the model returns nothing for the third frame of a connection
C28_Witness ==
    \E c \in Conns :
        /\ Built(c)
        /\ frame[c].model = "empty"
        /\ nrecv[c] = 3
        /\ last_sign \in Labels

\* the count and the label agree
CountMatchesLabel(count, sign) == count >= 0 /\ (count = 0 <=> sign = None)

\* C29: same_sign_count is never negative and is 0 exactly when last_sign is
\* unset; once set, last_sign is never unset and the count stays at 1 or
\* more, whatever connections close or open.
C29_CountAndLabel ==
    [][ /\ CountMatchesLabel(same_sign_count, last_sign)
        /\ CountMatchesLabel(same_sign_count', last_sign')
        /\ last_sign # None => (last_sign' # None /\ same_sign_count' >= 1) ]_vars

\* a connection that had a sign accepted has closed and another one has
\* opened since: the label and the count are still there
C29_Witness ==
    \E c, d \in Conns :
        /\ pc[c] = "closed" /\ nsent[c] >= 1
        /\ pc[d] = "receive" /\ nrecv[d] = 0
        /\ last_sign \in Labels
        /\ same_sign_count > SIGN_DETECTION_MAX_REPEATS

\* C30: the step that builds a symbol event leaves last_sign at the emitted
\* sign, and the count at 1 for is_new=true and between 2 and max_repeats
\* for is_new=false; with max_repeats = 1 no is_new=false event is built.
C30_EventAgreesWithCount ==
    [][ \A c \in Conns :
          (Classified(c) /\ pending'[c].kind = "sign") =>
              /\ last_sign' = pending'[c].sign
              /\ pending'[c].is_new => same_sign_count' = 1
              /\ ~pending'[c].is_new =>
                    /\ 2 <= same_sign_count' /\ same_sign_count' <= max_repeats
                    /\ max_repeats # 1 ]_vars

\* max_repeats is 1 and the second frame of a label is suppressed
C30_Witness ==
    \E c \in Conns :
        /\ pc[c] = "send"
        /\ max_repeats = 1
        /\ call[c].path = "suppressed"
        /\ call[c].pre.same_sign_count = 1
        /\ pending[c] = NoDetection

\* C31: an is_new=true event for the label of the last is_new=true event,
\* no accepted frame of another label having come between the two, is for a
\* frame classified more than the cooldown after the frame of that event.
C31_NewEventsACooldownApart ==
    [][ \A c \in Conns :
          ( /\ Classified(c)
            /\ pending'[c].kind = "sign" /\ pending'[c].is_new
            /\ pending'[c].sign = lastnew.label )
          => frame'[c].at - lastnew.at > SIGN_DETECTION_COOLDOWN ]_vars

\* a label is emitted as new a second time, by the other connection, after
\* frames of it have been answered as repeats or suppressed
C31_Witness ==
    \E c \in Conns :
        /\ pc[c] = "send"
        /\ IsSymbol(pending[c], frame[c].label, TRUE)
        /\ call[c].pre.last_sign = frame[c].label
        /\ call[c].pre.same_sign_count >= 2
        /\ nrecv[c] = 1
        /\ lastnew = [label |-> frame[c].label, at |-> frame[c].at]

\* the service's dedup state after the step
Dedup_state_next == [last_sign |-> last_sign', last_sign_time |-> last_sign_time',
                     same_sign_count |-> same_sign_count']

====
